---- MODULE Spec2Model ----
(***************************************************************************)
(* Model of the gravity sandbox main loop (src/src/main.c): the body       *)
(* registry, the planet builder, the mass slider, the RST / CAM / pause /  *)
(* mode / speed buttons and the substepped integrator.                     *)
(*                                                                         *)
(* One action is one iteration of the `while (!WindowShouldClose())` loop. *)
(* Its inputs are what raylib reports in that frame: the mouse position,   *)
(* whether the left button is down, and the point GetMouseOnPlane returns. *)
(*                                                                         *)
(* The camera, the 2D/3D switch and the drawing are presentation and are   *)
(* left out; cameraTarget, which indexes the registry, is kept.  The       *)
(* screen is 540 x 960 in every frame.                                     *)
(*                                                                         *)
(* float is modelled as a decimal floating-point number with a mantissa of *)
(* Digits digits, round-half-even, with +-inf and NaN, so that the         *)
(* arithmetic of the integrator (rounding, division by zero, 0*inf) is     *)
(* computed and not assumed.  Signed zero is not distinguished.            *)
(***************************************************************************)
EXTENDS Integers, Sequences, FiniteSets, TLC

\* ------------------------------------------------------------------ float

Digits == 4

\* 10^k for the exponents the arithmetic below needs (k <= 9 in an int).
Pow10(k) ==
    IF k = 0 THEN 1 ELSE IF k = 1 THEN 10 ELSE IF k = 2 THEN 100
    ELSE IF k = 3 THEN 1000 ELSE IF k = 4 THEN 10000 ELSE IF k = 5 THEN 100000
    ELSE IF k = 6 THEN 1000000 ELSE IF k = 7 THEN 10000000
    ELSE IF k = 8 THEN 100000000 ELSE 1000000000

\* The number of decimal digits of n >= 0.
NumDigits(n) ==
    IF n < 10 THEN 1 ELSE IF n < 100 THEN 2 ELSE IF n < 1000 THEN 3
    ELSE IF n < 10000 THEN 4 ELSE IF n < 100000 THEN 5 ELSE IF n < 1000000 THEN 6
    ELSE IF n < 10000000 THEN 7 ELSE IF n < 100000000 THEN 8
    ELSE IF n < 1000000000 THEN 9 ELSE 10

Abs(n) == IF n < 0 THEN -n ELSE n
Sgn(n) == IF n < 0 THEN -1 ELSE IF n = 0 THEN 0 ELSE 1

NaN == [k |-> "nan", m |-> 0, e |-> 0]
Inf(s) == [k |-> "inf", m |-> s, e |-> 0]
Zero == [k |-> "fin", m |-> 0, e |-> 0]

IsNaN(a) == a.k = "nan"
IsInf(a) == a.k = "inf"
IsFinite(a) == a.k = "fin"

\* The largest and smallest decimal exponents of a float's magnitude.
MaxExp10 == 38
MinExp10 == -45

\* The float sign * m * 10^e with m of exactly Digits digits: out of range it
\* is +-inf (overflow) or 0 (underflow).
Pack(sign, m, e) ==
    IF e + Digits - 1 > MaxExp10 THEN Inf(sign)
    ELSE IF e + Digits - 1 < MinExp10 THEN Zero
    ELSE [k |-> "fin", m |-> sign * m, e |-> e]

\* Round to nearest, ties to even: q is the kept part, r the dropped part out
\* of p, sticky says that a nonzero part below r was already dropped.
RoundsUp(q, r, p, sticky) ==
    (2 * r > p) \/ (2 * r = p /\ (sticky \/ q % 2 = 1))

\* A rounded mantissa q1 of up to Digits digits, or 10^Digits after a carry.
Carry(sign, q1, e) ==
    IF q1 = Pow10(Digits) THEN Pack(sign, Pow10(Digits - 1), e + 1)
    ELSE Pack(sign, q1, e)

\* mag has k > 0 digits too many; p = 10^k.
DropDigits(sign, mag, e, k, p, sticky) ==
    Carry(sign,
          (mag \div p) + (IF RoundsUp(mag \div p, mag % p, p, sticky) THEN 1 ELSE 0),
          e + k)

\* mag has k >= 0 digits too few.
PadDigits(sign, mag, e, k) == Pack(sign, mag * Pow10(k), e - k)

\* sign * mag * 10^e rounded to Digits digits (half to even); sticky says that
\* a nonzero part below mag was already dropped.
Round(sign, mag, e, sticky) ==
    IF mag = 0 THEN Zero
    ELSE IF NumDigits(mag) <= Digits
         THEN PadDigits(sign, mag, e, Digits - NumDigits(mag))
         ELSE DropDigits(sign, mag, e, NumDigits(mag) - Digits,
                         Pow10(NumDigits(mag) - Digits), sticky)

\* The float nearest to the integer n.
FromInt(n) == Round(Sgn(n), Abs(n), 0, FALSE)

\* The float n / 10^d (a decimal literal such as 0.0005f).
Dec(n, d) == Round(Sgn(n), Abs(n), -d, FALSE)

FNeg(a) == IF IsNaN(a) THEN NaN ELSE [a EXCEPT !.m = -a.m]

FMul(a, b) ==
    IF IsNaN(a) \/ IsNaN(b) THEN NaN
    ELSE IF IsInf(a) \/ IsInf(b)
         THEN IF a.m = 0 \/ b.m = 0 THEN NaN ELSE Inf(Sgn(a.m) * Sgn(b.m))
    ELSE Round(Sgn(a.m) * Sgn(b.m), Abs(a.m) * Abs(b.m), a.e + b.e, FALSE)

\* Finite a + b with a.e >= b.e, both nonzero.
AddAligned(a, b) ==
    LET sh == a.e - b.e
    IN  IF sh > Digits + 1 THEN a
        ELSE LET s == a.m * Pow10(sh) + b.m
             IN  Round(Sgn(s), Abs(s), b.e, FALSE)

FAdd(a, b) ==
    IF IsNaN(a) \/ IsNaN(b) THEN NaN
    ELSE IF IsInf(a) /\ IsInf(b) THEN (IF a.m = b.m THEN a ELSE NaN)
    ELSE IF IsInf(a) THEN a
    ELSE IF IsInf(b) THEN b
    ELSE IF a.m = 0 THEN b
    ELSE IF b.m = 0 THEN a
    ELSE IF a.e >= b.e THEN AddAligned(a, b) ELSE AddAligned(b, a)

FSub(a, b) == FAdd(a, FNeg(b))

FDiv(a, b) ==
    IF IsNaN(a) \/ IsNaN(b) THEN NaN
    ELSE IF IsInf(a) THEN (IF IsInf(b) THEN NaN
                           ELSE Inf(a.m * (IF b.m < 0 THEN -1 ELSE 1)))
    ELSE IF IsInf(b) THEN Zero
    ELSE IF b.m = 0 THEN (IF a.m = 0 THEN NaN ELSE Inf(Sgn(a.m)))
    ELSE IF a.m = 0 THEN Zero
    ELSE LET n == Abs(a.m) * Pow10(Digits + 1)
             d == Abs(b.m)
         IN  Round(Sgn(a.m) * Sgn(b.m), n \div d, a.e - b.e - (Digits + 1),
                   n % d # 0)

\* floor(sqrt(n)) by bisection on lo..hi, lo*lo <= n < (hi+1)*(hi+1).
RECURSIVE ISqrtIn(_, _, _)
ISqrtIn(n, lo, hi) ==
    IF lo = hi THEN lo
    ELSE LET mid == (lo + hi + 1) \div 2
         IN  IF mid * mid <= n THEN ISqrtIn(n, mid, hi)
             ELSE ISqrtIn(n, lo, mid - 1)

ISqrt(n) == ISqrtIn(n, 0, 46340)

FSqrt(a) ==
    IF IsNaN(a) THEN NaN
    ELSE IF IsInf(a) THEN (IF a.m > 0 THEN a ELSE NaN)
    ELSE IF a.m < 0 THEN NaN
    ELSE IF a.m = 0 THEN Zero
    ELSE LET odd == a.e % 2 # 0
             n   == a.m * Pow10(IF odd THEN Digits + 1 ELSE Digits)
             e   == IF odd THEN a.e - (Digits + 1) ELSE a.e - Digits
             r   == ISqrt(n)
         IN  Round(1, r, e \div 2, r * r # n)

\* a < b; false when either is NaN.
FLt(a, b) ==
    IF IsNaN(a) \/ IsNaN(b) THEN FALSE
    ELSE LET d == FSub(a, b)
         IN  IF IsNaN(d) THEN FALSE ELSE d.m < 0

FGt(a, b) == FLt(b, a)
FLe(a, b) == ~IsNaN(a) /\ ~IsNaN(b) /\ ~FLt(b, a)
FGe(a, b) == FLe(b, a)

\* ---------------------------------------------------------------- raymath

Vec(x, y, z) == <<FromInt(x), FromInt(y), FromInt(z)>>

Vector3Add(a, b) == <<FAdd(a[1], b[1]), FAdd(a[2], b[2]), FAdd(a[3], b[3])>>

Vector3Subtract(a, b) == <<FSub(a[1], b[1]), FSub(a[2], b[2]), FSub(a[3], b[3])>>

Vector3Scale(v, f) == <<FMul(v[1], f), FMul(v[2], f), FMul(v[3], f)>>

Vector3LengthSqr(v) ==
    FAdd(FAdd(FMul(v[1], v[1]), FMul(v[2], v[2])), FMul(v[3], v[3]))

Vector3Length(v) == FSqrt(Vector3LengthSqr(v))

\* raymath leaves a vector of length 0 as it is.
Vector3Normalize(v) ==
    LET length == Vector3Length(v)
    IN  IF length # Zero THEN Vector3Scale(v, FDiv(FromInt(1), length)) ELSE v

\* -------------------------------------------------------------- constants

G == FromInt(500)
BASE_DT == Dec(5, 4)
SUBSTEPS == 8

\* What GetScreenWidth / GetScreenHeight return (a 540 x 960 portrait phone).
ScreenW == 540
ScreenH == 960

\* ------------------------------------------------------------------ bounds

\* The main loop runs at most MaxFrames iterations.
MaxFrames == 6

\* ------------------------------------------------------------------ bodies

Body(pos, vel, mass, radius, color, fixed) ==
    [position |-> pos, velocity |-> vel, mass |-> mass, radius |-> radius,
     color |-> color, isFixed |-> fixed]

Sun == Body(Vec(0, 0, 0), Vec(0, 0, 0), FromInt(5000), FromInt(10), "GOLD", TRUE)
Planet == Body(Vec(50, 0, 0), Vec(0, 0, 310), FromInt(100), FromInt(3), "SKYBLUE", FALSE)

StartPreset == <<Sun, Planet>>

NoBuilder == [active |-> FALSE, startPos |-> Vec(0, 0, 0), endPos |-> Vec(0, 0, 0)]

\* -------------------------------------------------------------- integrator

\* The clamped distance of line 176 (the value the code computes and then
\* does not use).
ClampedDist(bi, bj) ==
    LET dist == FSqrt(Vector3LengthSqr(Vector3Subtract(bj.position, bi.position)))
        minD == FAdd(bi.radius, bj.radius)
    IN  IF FLt(dist, minD) THEN minD ELSE dist

\* float force = (G * bodies[i].mass * bodies[j].mass) / distSq;
ForceMagnitude(bi, bj) ==
    LET diff   == Vector3Subtract(bj.position, bi.position)
        distSq == Vector3LengthSqr(diff)
    IN  FDiv(FMul(FMul(G, bi.mass), bj.mass), distSq)

\* The term body j adds to totalForce of body i.
PairForce(bi, bj) ==
    LET diff == Vector3Subtract(bj.position, bi.position)
    IN  Vector3Scale(Vector3Normalize(diff), ForceMagnitude(bi, bj))

\* The inner loop over j = from .. size-1, skipping i, starting from acc.
RECURSIVE TotalForceFrom(_, _, _, _)
TotalForceFrom(bs, i, j, acc) ==
    IF j > Len(bs) THEN acc
    ELSE IF j = i THEN TotalForceFrom(bs, i, j + 1, acc)
    ELSE TotalForceFrom(bs, i, j + 1, Vector3Add(acc, PairForce(bs[i], bs[j])))

TotalForce(bs, i) == TotalForceFrom(bs, i, 1, Vec(0, 0, 0))

\* One iteration of the loop over i (lines 168-181), in place.
VelocityUpdateInterleaved(bs, i, dt) ==
    IF bs[i].isFixed THEN bs
    ELSE LET v == Vector3Add(bs[i].velocity,
                    Vector3Scale(Vector3Scale(TotalForce(bs, i),
                                              FDiv(FromInt(1), bs[i].mass)), dt))
         IN  [bs EXCEPT ![i].velocity = v,
                        ![i].position = Vector3Add(bs[i].position, Vector3Scale(v, dt))]

VelocityUpdateAll(bs, i, dt) ==
    [bs EXCEPT ![i].velocity =
        Vector3Add(bs[i].velocity,
                   Vector3Scale(Vector3Scale(TotalForce(bs, i),
                                             FDiv(FromInt(1), bs[i].mass)), dt))]

VelocityUpdate(bs, i, dt) ==
    IF bs[i].isFixed THEN bs
    ELSE [bs EXCEPT ![i].velocity =
            Vector3Add(bs[i].velocity,
                       Vector3Scale(Vector3Scale(TotalForce(bs, i),
                                                 FDiv(FromInt(1), bs[i].mass)), dt))]

\* The loop over i, visiting the bodies in the order `order` (the code's order
\* is 1, 2, ..., size).
RECURSIVE VelocityPass(_, _, _)
VelocityPass(bs, order, dt) ==
    IF order = <<>> THEN bs
    ELSE VelocityPass(VelocityUpdate(bs, Head(order), dt), Tail(order), dt)

\* for (auto& b : bodies) if (!b.isFixed) b.position += b.velocity * dt;
PositionPass(bs, dt) ==
    [i \in 1..Len(bs) |->
        IF bs[i].isFixed THEN bs[i]
        ELSE [bs[i] EXCEPT !.position =
                Vector3Add(bs[i].position, Vector3Scale(bs[i].velocity, dt))]]

CodeOrder(bs) == [i \in 1..Len(bs) |-> i]

\* One substep with the velocity pass run in the given order.
SubstepInOrder(bs, order, dt) == PositionPass(VelocityPass(bs, order, dt), dt)

Substep(bs, dt) == SubstepInOrder(bs, CodeOrder(bs), dt)

RECURSIVE Substeps(_, _, _)
Substeps(bs, dt, n) == IF n = 0 THEN bs ELSE Substeps(Substep(bs, dt), dt, n - 1)

\* The physics block of one frame.
Physics(bs, paused, timeSpeed) ==
    IF paused THEN bs ELSE Substeps(bs, FMul(BASE_DT, timeSpeed), SUBSTEPS)

\* ------------------------------------------------------------------ inputs

\* Screen points the pointer visits: two on the mass slider, one in the scene,
\* one on each button.
SliderMid == <<318, 30>>
SliderEnd == <<520, 30>>
Scene     == <<270, 480>>
OnMode    == <<50, 900>>
OnPause   == <<270, 900>>
OnReset   == <<378, 900>>
OnCam     == <<486, 900>>
OnMinus   == <<445, 840>>
OnPlus    == <<505, 840>>

MousePoints ==
    {SliderMid, SliderEnd, Scene, OnMode, OnPause, OnReset, OnCam, OnMinus, OnPlus}

\* While the button is down only the slider (lines 232-235) and the builder
\* (lines 135-142) read the pointer: two slider points, one point in the scene
\* and one in the lower UI band stand for all.
DownPoints == {SliderMid, SliderEnd, Scene, OnMode}

\* Points GetMouseOnPlane returns; (0,0,0) is also its degenerate result.
PlanePoints == {Vec(0, 0, 0), Vec(0, 0, 2), Vec(0, 0, 5)}

\* bool touchingUI = (GetMouseY() > screenH - 100) || (GetMouseY() < 80);
TouchingUI(mouse) == mouse[2] > ScreenH - 100 \/ mouse[2] < 80

\* raylib's CheckCollisionPointRec, rec = <<x, y, width, height>>.
CheckCollisionPointRec(pt, rec) ==
    /\ pt[1] >= rec[1] /\ pt[1] < rec[1] + rec[3]
    /\ pt[2] >= rec[2] /\ pt[2] < rec[2] + rec[4]

\* GuiButton: the button was released inside rect in this frame.
GuiButton(rect, released, mouse) == released /\ CheckCollisionPointRec(mouse, rect)

btnH == 80
btnY == ScreenH - btnH - 10
btnW == ScreenW \div 5

ButtonRect(k) == <<btnW * k, btnY, btnW - 5, btnH>>
MinusRect == <<ScreenW - 120, btnY - 50, 50, 40>>
PlusRect  == <<ScreenW - 60, btnY - 50, 50, 40>>

\* ----------------------------------------------------------------- builder

\* (newPlanetMass > 1000) ? RED : WHITE
ColorOfGe(mass) == IF FGe(mass, FromInt(1000)) THEN "RED" ELSE "WHITE"

ColorOf(mass) == IF FGt(mass, FromInt(1000)) THEN "RED" ELSE "WHITE"

\* The body pushed at lines 147-158.
NewBody(builder, mass) ==
    LET diff     == Vector3Subtract(builder.endPos, builder.startPos)
        velocity == Vector3Scale(diff, FromInt(5))
        r0       == FDiv(FSqrt(mass), FromInt(4))
        radius   == IF FLt(r0, FromInt(1)) THEN FromInt(1) ELSE r0
    IN  Body(builder.startPos, velocity, mass, radius, ColorOf(mass), FALSE)

\* if (Vector3Length(diff) > 2.0f)
LongEnoughGe(builder) ==
    FGe(Vector3Length(Vector3Subtract(builder.endPos, builder.startPos)), FromInt(2))

LongEnough(builder) ==
    FGt(Vector3Length(Vector3Subtract(builder.endPos, builder.startPos)), FromInt(2))

NoBody == [none |-> TRUE]

\* Lines 135-162: the new builder, the new registry, and what the release did
\* ("none": no gesture ended; "created"; "discarded") with the body pushed.
BuilderLogic(builder, bs, mass, createMode, mouse, pressed, down, released, mousePos3D) ==
    IF ~(createMode /\ ~TouchingUI(mouse))
    THEN [builder |-> builder, bodies |-> bs, gesture |-> "none", pushed |-> NoBody]
    ELSE LET b1 == IF pressed
                   THEN [builder EXCEPT !.active = TRUE, !.startPos = mousePos3D]
                   ELSE builder
             b2 == IF down THEN [b1 EXCEPT !.endPos = mousePos3D] ELSE b1
         IN  IF released /\ b2.active
             THEN IF LongEnough(b2)
                  THEN [builder |-> [b2 EXCEPT !.active = FALSE],
                        bodies  |-> Append(bs, NewBody(b2, mass)),
                        gesture |-> "created", pushed |-> NewBody(b2, mass)]
                  ELSE [builder |-> [b2 EXCEPT !.active = FALSE],
                        bodies  |-> bs, gesture |-> "discarded", pushed |-> NoBody]
             ELSE [builder |-> b2, bodies |-> bs, gesture |-> "none", pushed |-> NoBody]

\* ------------------------------------------------------------- mass slider

SliderMassNeg(mass, mouse, down) ==
    IF down /\ mouse[2] < 60 /\ mouse[1] > 120
    THEN LET clickPct == FDiv(FSub(FromInt(mouse[1]), FromInt(120)),
                              FromInt(ScreenW - 140))
         IN  FSub(FromInt(10), FMul(clickPct, FromInt(2000)))
    ELSE mass

\* Lines 232-235.
SliderMass(mass, mouse, down) ==
    IF down /\ mouse[2] < 60 /\ mouse[1] > 120
    THEN LET clickPct == FDiv(FSub(FromInt(mouse[1]), FromInt(120)),
                              FromInt(ScreenW - 140))
         IN  FAdd(FromInt(10), FMul(clickPct, FromInt(2000)))
    ELSE mass

\* ------------------------------------------------------------ camera target

\* Lines 117-122: the target after the check at the top of the frame.
CameraCheck(target, bs) ==
    IF target # -1 /\ target < Len(bs) THEN target ELSE -1

\* The index the frame reads bodies[] at in line 118, or -1 when it reads none.
CameraIndexed(target, bs) ==
    IF target # -1 /\ target < Len(bs) THEN target ELSE -1

CamPressGt(target, bs) ==
    IF target + 1 > Len(bs) THEN -1 ELSE target + 1

\* Lines 277-278.
CamPress(target, bs) ==
    IF target + 1 >= Len(bs) THEN -1 ELSE target + 1

\* ------------------------------------------------------------------- reset

ResetKeepTarget(target) == [bodies |-> <<Sun>>, cameraTarget |-> target]

\* Lines 270-272.
Reset(target) == [bodies |-> <<Sun>>, cameraTarget |-> -1]

\* ------------------------------------------------------------------- state

VARIABLES
    bodies,         \* std::vector<Body> bodies
    isPaused,       \* bool isPaused
    isCreateMode,   \* bool isCreateMode
    timeSpeed,      \* float timeSpeed
    newPlanetMass,  \* float newPlanetMass
    cameraTarget,   \* int cameraTarget (0-based index into bodies, -1 = none)
    builder,        \* PlanetBuilder builder
    mouseDown,      \* raylib: the left button was down in the previous frame
    ev,             \* what the last frame did (observation only)
    frame           \* iterations of the main loop so far (bounds the model)

vars == <<bodies, isPaused, isCreateMode, timeSpeed, newPlanetMass, cameraTarget,
          builder, mouseDown, ev, frame>>

NoEvent == [gesture |-> "none", pushed |-> NoBody, reset |-> FALSE, cam |-> FALSE,
            n0 |-> 2, cam0 |-> -1, indexed |-> -1]

\* The state at the first evaluation of the loop condition (lines 93-109).
Init ==
    /\ bodies = StartPreset
    /\ isPaused = FALSE
    /\ isCreateMode = FALSE
    /\ timeSpeed = FromInt(1)
    /\ newPlanetMass = FromInt(200)
    /\ cameraTarget = -1
    /\ builder = NoBuilder
    /\ mouseDown = FALSE
    /\ ev = NoEvent
    /\ frame = 0

\* One iteration of the main loop (lines 111-288) in which the left button is
\* `down`, the pointer is at `mouse` and GetMouseOnPlane returns mousePos3D.
Frame(down, mouse, mousePos3D) ==
    LET pressed  == down /\ ~mouseDown
        released == ~down /\ mouseDown
        modeBtn  == GuiButton(ButtonRect(0), released, mouse)
        pauseBtn == GuiButton(ButtonRect(2), released, mouse)
        rstBtn   == GuiButton(ButtonRect(3), released, mouse)
        camBtn   == GuiButton(ButtonRect(4), released, mouse)
        minusBtn == GuiButton(MinusRect, released, mouse)
        plusBtn  == GuiButton(PlusRect, released, mouse)
        ts1      == IF minusBtn THEN FMul(timeSpeed, Dec(8, 1)) ELSE timeSpeed
    IN  /\ frame < MaxFrames
        /\ frame' = frame + 1
        /\ \E bl \in {BuilderLogic(builder, bodies, newPlanetMass, isCreateMode,
                                   mouse, pressed, down, released, mousePos3D)} :
             /\ builder' = bl.builder
             /\ ev' = [gesture |-> bl.gesture, pushed |-> bl.pushed,
                       reset |-> rstBtn, cam |-> camBtn, n0 |-> Len(bodies),
                       cam0 |-> cameraTarget,
                       indexed |-> CameraIndexed(cameraTarget, bodies)]
             /\ \E rs \in {IF rstBtn THEN Reset(CameraCheck(cameraTarget, bodies))
                           ELSE [bodies |-> Physics(bl.bodies, isPaused, timeSpeed),
                                 cameraTarget |-> CameraCheck(cameraTarget, bodies)]} :
                  /\ bodies' = rs.bodies
                  /\ cameraTarget' = IF camBtn
                                     THEN CamPress(rs.cameraTarget, rs.bodies)
                                     ELSE rs.cameraTarget
        /\ newPlanetMass' = SliderMass(newPlanetMass, mouse, down)
        /\ isCreateMode' = IF modeBtn THEN ~isCreateMode ELSE isCreateMode
        /\ isPaused' = IF pauseBtn THEN ~isPaused ELSE isPaused
        /\ timeSpeed' = IF plusBtn THEN FMul(ts1, Dec(12, 1)) ELSE ts1
        /\ mouseDown' = down

\* mousePos3D is read only at lines 138 and 141, in create mode, away from the
\* UI bands, with the button down; elsewhere one value stands for all.
PlaneInputs(down, mouse) ==
    IF isCreateMode /\ ~TouchingUI(mouse) /\ down THEN PlanePoints
    ELSE {Vec(0, 0, 0)}

\* A frame with the button up, as in the frame before (nothing reads the
\* pointer).
Idle == ~mouseDown /\ Frame(FALSE, Scene, Vec(0, 0, 0))

\* The frame in which the button goes down.
Press == ~mouseDown /\ \E mouse \in DownPoints :
            \E p \in PlaneInputs(TRUE, mouse) : Frame(TRUE, mouse, p)

\* A frame with the button held down.
Hold == mouseDown /\ \E mouse \in DownPoints :
            \E p \in PlaneInputs(TRUE, mouse) : Frame(TRUE, mouse, p)

\* The frame in which the button goes up.
Release == mouseDown /\ \E mouse \in MousePoints : Frame(FALSE, mouse, Vec(0, 0, 0))

Next == Idle \/ Press \/ Hold \/ Release

Spec == Init /\ [][Next]_vars

\* ------------------------------------------------------------------ claims

GestureDiff == Vector3Subtract(builder.endPos, builder.startPos)

FiniteVec(v) == IsFinite(v[1]) /\ IsFinite(v[2]) /\ IsFinite(v[3])

\* C1: a fixed body has the same position and velocity after a frame as
\* before it, whatever the other bodies, the time speed and the number of
\* frames; and a fixed body does exert a force on a non-fixed body elsewhere.
FixedBodyInvariance ==
    [][/\ \A i \in 1..Len(bodies) :
            (bodies[i].isFixed /\ i <= Len(bodies')) =>
                /\ bodies'[i].position = bodies[i].position
                /\ bodies'[i].velocity = bodies[i].velocity
       /\ \A i, j \in 1..Len(bodies) :
            (/\ ~bodies[i].isFixed /\ bodies[j].isFixed
             /\ FiniteVec(bodies[i].position)
             /\ bodies[i].position # bodies[j].position) =>
                /\ FGt(ForceMagnitude(bodies[i], bodies[j]), Zero)
                /\ PairForce(bodies[i], bodies[j]) # Vec(0, 0, 0)]_vars

\* The integrator has run for several frames, at a changed time speed, on a
\* registry with a fixed body and a body it deflected.
FixedBodyWitness ==
    /\ frame >= 4 /\ ~isPaused /\ timeSpeed # FromInt(1)
    /\ Len(bodies) >= 2 /\ bodies[1].isFixed /\ ~bodies[2].isFixed
    /\ bodies[2].velocity[1] # Planet.velocity[1]

\* C2: whenever the button is up (every gesture has ended), the builder is
\* inactive.
BuilderInactiveAfterRelease == ~mouseDown => ~builder.active

\* C3: a release that ends an active gesture leaves the registry's size alone
\* when |diff| <= 2 and appends exactly one body when |diff| > 2: position
\* startPos, velocity diff * 5, mass the selected mass, radius
\* max(1, sqrt(mass) / 4), not fixed.
BuilderThreshold ==
    LET len == Vector3Length(GestureDiff)
        r0  == FDiv(FSqrt(newPlanetMass), FromInt(4))
    IN  /\ ev.gesture = "discarded" =>
            /\ FLe(len, FromInt(2))
            /\ Len(bodies) = ev.n0
        /\ ev.gesture = "created" =>
            /\ FGt(len, FromInt(2))
            /\ Len(bodies) = ev.n0 + 1
            /\ ev.pushed.position = builder.startPos
            /\ ev.pushed.velocity = Vector3Scale(GestureDiff, FromInt(5))
            /\ ev.pushed.mass = newPlanetMass
            /\ ev.pushed.radius = IF FGe(r0, FromInt(1)) THEN r0 ELSE FromInt(1)
            /\ ev.pushed.isFixed = FALSE
            /\ bodies[Len(bodies)].mass = ev.pushed.mass
            /\ bodies[Len(bodies)].radius = ev.pushed.radius
            /\ bodies[Len(bodies)].isFixed = FALSE
            /\ isPaused => bodies[Len(bodies)] = ev.pushed

\* A drag longer than 2 has just created a body.
BuilderThresholdWitness ==
    /\ ev.gesture = "created"
    /\ FGt(Vector3Length(GestureDiff), FromInt(2))
    /\ Len(bodies) = 3

\* C4: the selected mass lies in [10, 2000].
MassInRange ==
    FGe(newPlanetMass, FromInt(10)) /\ FLe(newPlanetMass, FromInt(2000))

\* C5: the force the integrator computes for a pair of bodies, of which the
\* first is not fixed, is finite and not negative, and so is its vector.
ForceFinite ==
    \A i, j \in 1..Len(bodies) :
        (i # j /\ ~bodies[i].isFixed) =>
            /\ IsFinite(ForceMagnitude(bodies[i], bodies[j]))
            /\ FGe(ForceMagnitude(bodies[i], bodies[j]), Zero)
            /\ FiniteVec(PairForce(bodies[i], bodies[j]))

\* C6: every body of the registry has mass > 0 and radius > 0.
BodyValidity ==
    \A i \in 1..Len(bodies) :
        FGt(bodies[i].mass, Zero) /\ FGt(bodies[i].radius, Zero)

\* The registry holds a body built with a mass chosen on the slider.
BodyValidityWitness ==
    /\ Len(bodies) = 3
    /\ bodies[3].mass # FromInt(200)
    /\ bodies[3].mass = newPlanetMass

\* C7: a reset of a registry of more than one body leaves exactly the fixed
\* body of mass 5000 and radius 10 at rest at the origin, and no camera target.
ResetPost ==
    (ev.reset /\ ev.n0 > 1) =>
        /\ Len(bodies) = 1
        /\ bodies[1].isFixed
        /\ bodies[1].position = Vec(0, 0, 0)
        /\ bodies[1].velocity = Vec(0, 0, 0)
        /\ bodies[1].mass = FromInt(5000)
        /\ bodies[1].radius = FromInt(10)
        /\ cameraTarget = -1

\* A reset of two bodies while the camera followed one of them.
ResetWitness == ev.reset /\ ev.n0 > 1 /\ ev.cam0 # -1

\* C8: CAM adds one to cameraTarget and wraps it to -1 past the last body;
\* cameraTarget is -1 or an index of the registry, and so is every index the
\* frame reads the registry at.
CameraTargetValid ==
    /\ cameraTarget = -1 \/ (0 <= cameraTarget /\ cameraTarget < Len(bodies))
    /\ ev.indexed # -1 => (0 <= ev.indexed /\ ev.indexed < ev.n0)
    /\ ev.cam => cameraTarget = IF ev.cam0 + 1 >= Len(bodies) THEN -1
                                ELSE ev.cam0 + 1

\* CAM has just wrapped from the last body to "no target".
CameraWrapWitness == ev.cam /\ ev.cam0 # -1 /\ cameraTarget = -1 /\ ev.indexed # -1

\* C9 as stated: a built body is "heavy" (RED) exactly when its mass >= 1000.
HeavyFromThousand ==
    ev.gesture = "created" =>
        (ev.pushed.color = "RED" <=> FGe(ev.pushed.mass, FromInt(1000)))

\* C9 as amended: a built body is "heavy" (RED) exactly when its mass > 1000,
\* and "light" (WHITE) otherwise; a body of mass exactly 1000 is light.
HeavyAboveThousand ==
    ev.gesture = "created" =>
        /\ ev.pushed.color = "RED" <=> FGt(ev.pushed.mass, FromInt(1000))
        /\ ev.pushed.color = "WHITE" <=> FLe(ev.pushed.mass, FromInt(1000))

\* A body of mass exactly 1000 has just been built.
ThousandWitness == ev.gesture = "created" /\ ev.pushed.mass = FromInt(1000)

Orders(n) == {o \in [1..n -> 1..n] : \A a, b \in 1..n : o[a] = o[b] => a = b}

\* C10: in a substep every non-fixed body gets the velocity computed from the
\* positions at the start of the substep, then the position advanced by that
\* velocity; the result is the same in whatever order the velocity pass visits
\* the bodies.
SubstepOrdering ==
    LET dt  == FMul(BASE_DT, timeSpeed)
        res == Substep(bodies, dt)
    IN  /\ \A i \in 1..Len(bodies) :
              ~bodies[i].isFixed =>
                  LET v == Vector3Add(bodies[i].velocity,
                             Vector3Scale(Vector3Scale(TotalForce(bodies, i),
                                 FDiv(FromInt(1), bodies[i].mass)), dt))
                  IN  /\ res[i].velocity = v
                      /\ res[i].position =
                            Vector3Add(bodies[i].position, Vector3Scale(v, dt))
        /\ \A o \in Orders(Len(bodies)) : SubstepInOrder(bodies, o, dt) = res

\* The integrator runs on two non-fixed bodies that attract each other.
SubstepOrderingWitness ==
    /\ Len(bodies) = 3 /\ ~isPaused /\ ~ev.reset /\ ev.gesture = "none"
    /\ ~bodies[2].isFixed /\ ~bodies[3].isFixed
    /\ FiniteVec(bodies[2].position) /\ FiniteVec(bodies[3].position)
    /\ FGt(ForceMagnitude(bodies[2], bodies[3]), Zero)

====
